---- MODULE Spec2Model ----
(***************************************************************************)
(* A model of easy_imap's connection.py: the Connection / MailBox /        *)
(* Message hierarchy over an IMAP transport (imaplib.IMAP4_SSL).           *)
(*                                                                         *)
(* Strings the code takes apart or builds character by character (search   *)
(* payloads, item numbers, listing lines) are sequences of one-character   *)
(* strings; strings the code only passes on or concatenates are TLA+       *)
(* strings.                                                                *)
(***************************************************************************)
EXTENDS Integers, Sequences, FiniteSets, TLC

VARIABLES
    mailbox,    \* Connection.mailbox: the cached current mailbox name
    readonly,   \* Connection.readonly: the cached read-only flag
    selected,   \* the transport's most recent successful select, or NoSelection
    op,         \* the most recent operation
    caller,     \* the handle it was called on, or NoHandle
    args,       \* its arguments
    before,     \* Connection.mailbox / Connection.readonly when it started
    calls,      \* the transport calls it issued, in order
    outcome,    \* "ok" when it returned, otherwise the exception it raised
    result,     \* <<what it returned>>, NoResult when it raised
    serialized, \* whether the callers run one operation at a time
    pc,         \* per thread: "idle", or "selected" between the two steps
    running     \* per thread: the handle and method of its operation

vars == <<mailbox, readonly, selected, op, caller, args, before, calls,
          outcome, result, serialized, pc, running>>

----------------------------------------------------------------------------
(* Bounds *)

MaxMsgs == 2        \* messages in one store / fetch call
MaxItems == 2       \* item numbers in one search payload
MaxLines == 2       \* lines in one listing payload

----------------------------------------------------------------------------
(* Inputs *)

Names == {"INBOX", "Sent"}
Status == {"OK", "NO", ""}
ItemNums == {<<"2">>, <<"1", "2">>}
Commands == {"+"}
PartsSet == {<<"UID", "FLAGS">>}

SeqsUpTo(S, n) == UNION {[1..k -> S] : k \in 0..n}

NoSelection == [mailbox |-> "(none)", readonly |-> FALSE]
NoHandle == [kind |-> "none", mailbox |-> "(none)", readonly |-> FALSE, num |-> <<>>]
NoResult == <<>>

----------------------------------------------------------------------------
(* Python string helpers *)

\* sep.join(parts) over character sequences
RECURSIVE Join(_, _)
Join(parts, sep) ==
    IF parts = <<>> THEN <<>>
    ELSE IF Len(parts) = 1 THEN parts[1]
    ELSE parts[1] \o sep \o Join(Tail(parts), sep)

\* sep.join(parts) over TLA+ strings
RECURSIVE JoinStr(_, _)
JoinStr(parts, sep) ==
    IF parts = <<>> THEN ""
    ELSE IF Len(parts) = 1 THEN parts[1]
    ELSE parts[1] \o sep \o JoinStr(Tail(parts), sep)

\* s.split(c): a new piece starts after every occurrence of c
RECURSIVE SplitAcc(_, _, _, _)
SplitAcc(s, c, cur, acc) ==
    IF s = <<>> THEN Append(acc, cur)
    ELSE IF Head(s) = c THEN SplitAcc(Tail(s), c, <<>>, Append(acc, cur))
    ELSE SplitAcc(Tail(s), c, Append(cur, Head(s)), acc)

Split(s, c) == SplitAcc(s, c, <<>>, <<>>)

\* iterating a str yields its characters, iterating a list its elements
Iter(x) ==
    IF x.kind = "str" THEN [i \in 1..Len(x.val) |-> <<x.val[i]>>]
    ELSE x.val

StrArg(s) == [kind |-> "str", val |-> s]
ListArg(l) == [kind |-> "list", val |-> l]

----------------------------------------------------------------------------
(* _ok *)

\* TRUE when _ok(ok) returns, FALSE when it raises BadReturnStatus
OkTreatsEmptyAsOk(ok) == ok = "OK" \/ ok = ""

Ok(ok) == ok = "OK"

----------------------------------------------------------------------------
(* The transport *)

\* one call on self.parent, with the selection it was executed under
TCall(fn, arguments, status, payload, sel) ==
    [fn |-> fn, args |-> arguments, status |-> status, payload |-> payload,
     sel |-> sel]

\* IMAP4.select: an OK answer makes (mailbox, readonly) the selection
Selection(sel, m, ro, status) ==
    IF status = "OK" THEN [mailbox |-> m, readonly |-> ro] ELSE sel

\* the connection state the methods below read and write
Self == [mailbox |-> mailbox, readonly |-> readonly, selected |-> selected]

Raise(s, cs, exc) ==
    [self |-> s, calls |-> cs, outcome |-> exc, result |-> NoResult]

Return(s, cs, value) ==
    [self |-> s, calls |-> cs, outcome |-> "ok", result |-> <<value>>]

\* the transport's fetch payload for an item-number string
FetchPayload(num_string, command) == <<"FETCH", num_string, command>>

\* the transport's store payload: the flags of one message after the store
StorePayload(message, command, flags) == <<message, "FLAGS", command, flags>>

----------------------------------------------------------------------------
(* Connection *)

\* name[1:]
Rest(name) == IF name = <<>> THEN <<>> ELSE Tail(name)

\* name.startswith(prefix), prefix one character
StartsWithAnything(name, prefix) == TRUE

StartsWith(name, prefix) == name # <<>> /\ Head(name) = prefix

\* attributes of the transport that the attribute names below can reach
Noop == <<"n", "o", "o", "p">>
Uid == <<"u", "i", "d">>
Bogus == <<"b", "o", "g", "u", "s">>
ParentAttrs == {Noop, Uid}

\* hasattr(self.parent, name)
HasAttr(name) == name \in ParentAttrs

\* Connection.__getattr__, reached for names Connection does not define;
\* the value returned is the transport's attribute of that name
getattr(s, name) ==
    IF StartsWith(name, "_") /\ HasAttr(Rest(name))
    THEN Return(s, <<>>, [parent |-> Rest(name)])
    ELSE Raise(s, <<>>, "AttributeError")

\* Connection.switch, line 120
SwitchMailboxAlways(cur, m, ok) == m

SwitchMailbox(cur, m, ok) == IF ok THEN m ELSE cur

\* Connection.switch, line 121: self.readonly = self.readonly
SwitchReadonly(cur, ro, ok) == cur

\* Connection.switch skipping the transport when the name is the cached one
switchCached(s, m, ro, status) ==
    LET c == TCall("select", <<m, ro>>, status, <<>>, s.selected)
        s2 == [mailbox |-> SwitchMailbox(s.mailbox, m, Ok(status)),
               readonly |-> SwitchReadonly(s.readonly, ro, Ok(status)),
               selected |-> Selection(s.selected, m, ro, status)]
    IN  IF s.mailbox = m THEN Return(s, <<>>, "None")
        ELSE IF Ok(status) THEN Return(s2, <<c>>, "None")
        ELSE Raise(s2, <<c>>, "BadReturnStatus")

switch(s, m, ro, status) ==
    LET c == TCall("select", <<m, ro>>, status, <<>>, s.selected)
        s2 == [mailbox |-> SwitchMailbox(s.mailbox, m, Ok(status)),
               readonly |-> SwitchReadonly(s.readonly, ro, Ok(status)),
               selected |-> Selection(s.selected, m, ro, status)]
    IN  IF Ok(status) THEN Return(s2, <<c>>, "None")
        ELSE Raise(s2, <<c>>, "BadReturnStatus")

\* Message.__init__ with the read-only flag left at the default
MessageNotReadonly(inherit, num) ==
    [kind |-> "Message", mailbox |-> inherit.mailbox, readonly |-> FALSE,
     num |-> num]

MailBox(m, ro) ==
    [kind |-> "MailBox", mailbox |-> m, readonly |-> ro, num |-> <<>>]

Message(inherit, num) ==
    [kind |-> "Message", mailbox |-> inherit.mailbox,
     readonly |-> inherit.readonly, num |-> num]

\* Connection.select handing out the MailBox whatever switch did
selectIgnoringFailure(s, m, ro, status) ==
    LET r == switch(s, m, ro, status)
    IN  Return(r.self, r.calls, MailBox(m, ro))

select(s, m, ro, status) ==
    LET r == switch(s, m, ro, status)
    IN  IF r.outcome = "ok" THEN Return(r.self, r.calls, MailBox(m, ro))
        ELSE r

\* Connection.login forgetting the current mailbox
loginResetsMailbox(s, user, password, status, value) ==
    LET c == TCall("login", <<user, password>>, status, value, s.selected)
        s2 == [s EXCEPT !.mailbox = "INBOX"]
    IN  IF Ok(status) THEN Return(s2, <<c>>, value[1])
        ELSE Raise(s2, <<c>>, "BadReturnStatus")

login(s, user, password, status, value) ==
    LET c == TCall("login", <<user, password>>, status, value, s.selected)
    IN  IF Ok(status) THEN Return(s, <<c>>, value[1])
        ELSE Raise(s, <<c>>, "BadReturnStatus")

search(s, criteria, charset, status, results) ==
    LET c == TCall("search", <<charset, criteria>>, status, results, s.selected)
    IN  IF ~Ok(status) THEN Raise(s, <<c>>, "BadReturnStatus")
        ELSE IF results[1] = <<>> THEN Return(s, <<c>>, <<>>)
        ELSE Return(s, <<c>>, Split(results[1], " "))

fetch(s, nums, parts, status) ==
    LET num_string == Join(Iter(nums), <<" ">>)
        command == "(" \o JoinStr(parts, " ") \o ")"
        payload == FetchPayload(num_string, command)
        c == TCall("fetch", <<num_string, command>>, status, payload, s.selected)
    IN  IF Ok(status) THEN Return(s, <<c>>, payload)
        ELSE Raise(s, <<c>>, "BadReturnStatus")

StoreCommand(command, silent) ==
    IF silent THEN (command \o "FLAGS") \o ".SILENT" ELSE command \o "FLAGS"

\* Connection.store, line 148
CollectInFront(new_flag_list, new_flags) == <<new_flags>> \o new_flag_list

Collect(new_flag_list, new_flags) == Append(new_flag_list, new_flags)

\* the loop of Connection.store from message i on; resp[i] is the status
\* the transport answers the i-th store call with
RECURSIVE StoreLoop(_, _, _, _, _, _, _, _)
StoreLoop(s, messages, command, flags, resp, i, cs, new_flag_list) ==
    IF i > Len(messages) THEN Return(s, cs, new_flag_list)
    ELSE LET new_flags == StorePayload(messages[i], command, flags)
             c == TCall("store", <<messages[i], command, flags>>, resp[i],
                        new_flags, s.selected)
         IN  IF ~Ok(resp[i]) THEN Raise(s, Append(cs, c), "BadReturnStatus")
             ELSE StoreLoop(s, messages, command, flags, resp, i + 1,
                            Append(cs, c), Collect(new_flag_list, new_flags))

store(s, messages, flags, command, silent, resp) ==
    StoreLoop(s, messages, StoreCommand(command, silent), flags, resp, 1,
              <<>>, <<>>)

----------------------------------------------------------------------------
(* _parse_list_response *)

Quote == "\""

IsAt(line, i, pat) ==
    /\ i + Len(pat) - 1 <= Len(line)
    /\ SubSeq(line, i, i + Len(pat) - 1) = pat

Min(S) == CHOOSE x \in S : \A y \in S : x <= y
Max(S) == CHOOSE x \in S : \A y \in S : x >= y

NoMatch == [matched |-> FALSE]

\* _list_response_pattern.match(line):  \((.*?)\) "(.*)" (.*)
\* anchored at the start of the line; the flags group is lazy (the first
\* `) "` after which the rest can match), the delimiter group greedy (up to
\* the last `" `), the name group takes the rest of the line
PatternMatch(line) ==
    LET n == Len(line)
        closers == {j \in 1..n : IsAt(line, j, <<Quote, " ">>)}
        openers == {i \in 2..n : /\ IsAt(line, i, <<")", " ", Quote>>)
                                 /\ \E j \in closers : j >= i + 3}
    IN  IF n = 0 \/ line[1] # "(" \/ openers = {} THEN NoMatch
        ELSE LET i == Min(openers)
                 j == Max({k \in closers : k >= i + 3})
             IN  [matched |-> TRUE,
                  flags |-> SubSeq(line, 2, i - 1),
                  delimiter |-> SubSeq(line, i + 3, j - 1),
                  name |-> SubSeq(line, j + 2, n)]

\* s.strip(c): every leading and every trailing c is removed
RECURSIVE LStrip(_, _)
LStrip(s, c) ==
    IF s # <<>> /\ Head(s) = c THEN LStrip(Tail(s), c) ELSE s

RECURSIVE RStrip(_, _)
RStrip(s, c) ==
    IF s # <<>> /\ s[Len(s)] = c THEN RStrip(SubSeq(s, 1, Len(s) - 1), c) ELSE s

Strip(s, c) == RStrip(LStrip(s, c), c)

\* NoMatch stands for the AttributeError of None.groups()
parse_list_response(line) ==
    LET m == PatternMatch(line)
    IN  IF ~m.matched THEN NoMatch
        ELSE [matched |-> TRUE, flags |-> m.flags, delimiter |-> m.delimiter,
              name |-> Strip(m.name, Quote)]

\* boxes[name] = this_box
InsertKeepsFirst(boxes, name, this_box) ==
    [n \in DOMAIN boxes \cup {name} |->
        IF n \in DOMAIN boxes THEN boxes[n] ELSE this_box]

Insert(boxes, name, this_box) ==
    [n \in DOMAIN boxes \cup {name} |-> IF n = name THEN this_box ELSE boxes[n]]

RECURSIVE ListLoop(_, _, _, _, _)
ListLoop(s, c, boxlist, i, boxes) ==
    IF i > Len(boxlist) THEN Return(s, <<c>>, boxes)
    ELSE LET p == parse_list_response(boxlist[i])
         IN  IF ~p.matched THEN Raise(s, <<c>>, "AttributeError")
             ELSE ListLoop(s, c, boxlist, i + 1,
                           Insert(boxes, p.name,
                                  [flags |-> p.flags, delimiter |-> p.delimiter]))

list(s, status, boxlist) ==
    LET c == TCall("list", <<>>, status, boxlist, s.selected)
    IN  IF ~Ok(status) THEN Raise(s, <<c>>, "BadReturnStatus")
        ELSE ListLoop(s, c, boxlist, 1, <<>>)

----------------------------------------------------------------------------
(* MailBox and Message *)

\* MailBox._select, line 159
NeedsSelectAlways(cur, m) == TRUE

NeedsSelectInverted(cur, m) == cur = m

NeedsSelect(cur, m) == cur # m

MailBox_select(s, h, selStatus) ==
    IF NeedsSelect(s.mailbox, h.mailbox)
    THEN switch(s, h.mailbox, h.readonly, selStatus)
    ELSE Return(s, <<>>, "None")

\* r2 after r1 returned: the calls of both, the rest from r2
After(r1, r2) == [r2 EXCEPT !.calls = r1.calls \o r2.calls]

\* MailBox.search after self._select(), lines 164-167
SearchMessages(s, h, criteria, charset, status, results) ==
    LET r == search(s, criteria, charset, status, results)
    IN  IF r.outcome # "ok" THEN r
        ELSE [r EXCEPT !.result =
                 <<[i \in 1..Len(r.result[1]) |-> Message(h, r.result[1][i])]>>]

MailBox_search(s, h, selStatus, criteria, charset, status, results) ==
    LET r1 == MailBox_select(s, h, selStatus)
    IN  IF r1.outcome # "ok" THEN r1
        ELSE After(r1, SearchMessages(r1.self, h, criteria, charset, status,
                                      results))

MailBox_fetch(s, h, selStatus, nums, parts, status) ==
    LET r1 == MailBox_select(s, h, selStatus)
    IN  IF r1.outcome # "ok" THEN r1
        ELSE After(r1, fetch(r1.self, nums, parts, status))

\* MailBox.store, line 174
StoreRefusedNever(h) == FALSE

StoreRefused(h) == h.readonly

MailBox_store(s, h, selStatus, messages, flags, command, silent, resp) ==
    IF StoreRefused(h) THEN Raise(s, <<>>, "ReadOnlyException")
    ELSE LET r1 == MailBox_select(s, h, selStatus)
         IN  IF r1.outcome # "ok" THEN r1
             ELSE After(r1, store(r1.self, messages, flags, command, silent, resp))

\* item numbers are held as decimal strings, so str(self.num) is self.num
Message_fetch(s, h, selStatus, parts, status) ==
    MailBox_fetch(s, h, selStatus, StrArg(h.num), parts, status)

\* Message.store, line 191: return new_flags[0]
UnwrapNot(r) == r

Unwrap(r) ==
    IF r.outcome # "ok" THEN r ELSE [r EXCEPT !.result = <<r.result[1][1]>>]

Message_store(s, h, selStatus, flags, command, silent, resp) ==
    Unwrap(MailBox_store(s, h, selStatus, <<h.num>>, flags, command, silent, resp))

----------------------------------------------------------------------------
(* Transport answers *)

\* a search payload: the item numbers separated by single spaces
SearchPayload(items) == <<Join(items, <<" ">>)>>

SearchPayloads == {SearchPayload(items) : items \in SeqsUpTo(ItemNums, MaxItems)}

\* what comes with a status that is not OK: the server's text, no data
ErrorText == <<<<"e", "r", "r">>>>

\* the transport's answers to a search
SearchAnswers ==
    {[status |-> "OK", payload |-> p] : p \in SearchPayloads} \cup
    {[status |-> st, payload |-> ErrorText] : st \in Status \ {"OK"}}

\* the statuses of n store calls in a row; Connection.store stops at the
\* first one that is not OK, so what would follow it is left out
StoreAnswers(n) ==
    {[i \in 1..n |-> "OK"]} \cup
    {[i \in 1..n |-> IF i = k THEN st ELSE "OK"] :
        k \in 1..n, st \in Status \ {"OK"}}

\* the MailBox and Message objects a caller can hold on the Connection
MailBoxes == {MailBox(m, ro) : m \in Names, ro \in BOOLEAN}
Messages == {Message(h, num) : h \in MailBoxes, num \in ItemNums}
Handles == MailBoxes \cup Messages

\* the statuses the transport can answer the select of h._select() with;
\* a select that is not issued gets no answer
SelectAnswers(h) ==
    IF NeedsSelect(mailbox, h.mailbox) THEN Status ELSE {"OK"}

\* the statuses the transport can answer the selects and stores of a store
\* of n messages on h with; a store that is refused issues neither
StoreSelectAnswers(h) ==
    IF StoreRefused(h) THEN {"OK"} ELSE SelectAnswers(h)

StoreAnswersAfter(h, selStatus, n) ==
    IF StoreRefused(h) \/ ~Ok(selStatus) THEN {[i \in 1..n |-> "OK"]}
    ELSE StoreAnswers(n)

\* the statuses the transport can answer the call after h._select() with;
\* a call that is not issued gets no answer
AnswersAfter(selStatus, answers, none) ==
    IF Ok(selStatus) THEN answers ELSE {none}

\* a listing line: (flags) "delimiter" name
ListLine(flags, delimiter, name) ==
    <<"(">> \o flags \o <<")", " ", Quote>> \o delimiter \o <<Quote, " ">> \o name

ListLines ==
    {ListLine(<<>>, <<"/">>, <<"a">>),
     ListLine(<<"x">>, <<".">>, <<"a">>),
     ListLine(<<"x", " ", "y">>, <<"/">>, <<Quote, "a", " ", "b", Quote>>),
     <<"(", "x", ")", " ", "/", " ", "a">>}

\* the transport's answers to a list
ListAnswers ==
    {[status |-> "OK", payload |-> b] : b \in SeqsUpTo(ListLines, MaxLines)} \cup
    {[status |-> st, payload |-> ErrorText] : st \in Status \ {"OK"}}

----------------------------------------------------------------------------
(* State machine *)

Threads == {"t1", "t2"}
NoOperation == [h |-> NoHandle, fn |-> "none"]

Init ==
    /\ mailbox = "INBOX"
    /\ readonly = FALSE
    /\ selected = NoSelection
    /\ op = "init"
    /\ caller = NoHandle
    /\ args = <<>>
    /\ before = [mailbox |-> "INBOX", readonly |-> FALSE]
    /\ calls = <<>>
    /\ outcome = "ok"
    /\ result = NoResult
    /\ serialized = TRUE
    /\ pc = [t \in Threads |-> "idle"]
    /\ running = [t \in Threads |-> NoOperation]

\* the state after operation name, called on handle h with arguments a,
\* ended as r
Record(name, h, a, r) ==
    \E x \in {r} :
        /\ mailbox' = x.self.mailbox
        /\ readonly' = x.self.readonly
        /\ selected' = x.self.selected
        /\ op' = name
        /\ caller' = h
        /\ args' = a
        /\ before' = [mailbox |-> mailbox, readonly |-> readonly]
        /\ calls' = x.calls
        /\ outcome' = x.outcome
        /\ result' = x.result

\* one operation run from call to return, nothing else in between
Finish(name, h, a, r) ==
    /\ Record(name, h, a, r)
    /\ UNCHANGED <<serialized, pc, running>>

NewMailBox ==
    \E m \in Names, ro \in BOOLEAN :
        Finish("MailBox", NoHandle, <<m, ro>>, Return(Self, <<>>, MailBox(m, ro)))

NewMessage ==
    \E h \in Handles, num \in ItemNums :
        Finish("Message", NoHandle, <<h, num>>, Return(Self, <<>>, Message(h, num)))

ConnLogin ==
    \E status \in Status :
        Finish("Connection.login", NoHandle, <<"user", "password">>,
               login(Self, "user", "password", status, <<"LOGIN completed">>))

\* attribute names that Connection does not define
AttrNames ==
    {<<>>, <<"_">>, Noop, Bogus, <<"_">> \o Noop, <<"_">> \o Uid,
     <<"_">> \o Bogus, <<"x">> \o Noop, <<"_", "_">> \o Noop}

ConnGetattr ==
    \E name \in AttrNames :
        Finish("Connection.__getattr__", NoHandle, <<name>>, getattr(Self, name))

ConnList ==
    \E answer \in ListAnswers :
        Finish("Connection.list", NoHandle, <<>>,
               list(Self, answer.status, answer.payload))

ConnSwitch ==
    \E m \in Names, ro \in BOOLEAN, status \in Status :
        Finish("Connection.switch", NoHandle, <<m, ro>>, switch(Self, m, ro, status))

ConnSelect ==
    \E m \in Names, ro \in BOOLEAN, status \in Status :
        Finish("Connection.select", NoHandle, <<m, ro>>, select(Self, m, ro, status))

ConnSearch ==
    \E answer \in SearchAnswers :
        Finish("Connection.search", NoHandle, <<"ALL">>,
               search(Self, "ALL", "None", answer.status, answer.payload))

ConnFetch ==
    \E nums \in SeqsUpTo(ItemNums, MaxMsgs), parts \in PartsSet,
       status \in Status :
        Finish("Connection.fetch", NoHandle, <<nums, parts>>,
               fetch(Self, ListArg(nums), parts, status))

ConnStore ==
    \E messages \in SeqsUpTo(ItemNums, MaxMsgs), command \in Commands,
       silent \in BOOLEAN :
        \E resp \in StoreAnswers(Len(messages)) :
            Finish("Connection.store", NoHandle,
                   <<messages, "\\Seen", command, silent>>,
                   store(Self, messages, "\\Seen", command, silent, resp))

\* Message inherits search unchanged; it is called on the MailBoxes here
MailBoxSearch ==
    \E h \in MailBoxes :
        \E selStatus \in SelectAnswers(h) :
            \E answer \in AnswersAfter(selStatus, SearchAnswers,
                                       [status |-> "OK", payload |-> <<<<>>>>]) :
                Finish("MailBox.search", h, <<"ALL">>,
                       MailBox_search(Self, h, selStatus, "ALL", "None",
                                      answer.status, answer.payload))

MailBoxFetch ==
    \E h \in MailBoxes, nums \in SeqsUpTo(ItemNums, MaxMsgs), parts \in PartsSet :
        \E selStatus \in SelectAnswers(h) :
            \E status \in AnswersAfter(selStatus, Status, "OK") :
                Finish("MailBox.fetch", h, <<nums, parts>>,
                       MailBox_fetch(Self, h, selStatus, ListArg(nums), parts,
                                     status))

MailBoxStore ==
    \E h \in MailBoxes, messages \in SeqsUpTo(ItemNums, MaxMsgs),
       command \in Commands, silent \in BOOLEAN :
        \E selStatus \in StoreSelectAnswers(h) :
            \E resp \in StoreAnswersAfter(h, selStatus, Len(messages)) :
                Finish("MailBox.store", h, <<messages, "\\Seen", command, silent>>,
                       MailBox_store(Self, h, selStatus, messages, "\\Seen",
                                     command, silent, resp))

MessageFetch ==
    \E h \in Messages, parts \in PartsSet :
        \E selStatus \in SelectAnswers(h) :
            \E status \in AnswersAfter(selStatus, Status, "OK") :
                Finish("Message.fetch", h, <<parts>>,
                       Message_fetch(Self, h, selStatus, parts, status))

MessageStore ==
    \E h \in Messages, command \in Commands, silent \in BOOLEAN :
        \E selStatus \in StoreSelectAnswers(h) :
            \E resp \in StoreAnswersAfter(h, selStatus, 1) :
                Finish("Message.store", h, <<"\\Seen", command, silent>>,
                       Message_store(Self, h, selStatus, "\\Seen", command,
                                     silent, resp))

Next ==
    \/ NewMailBox
    \/ NewMessage
    \/ ConnLogin
    \/ ConnGetattr
    \/ ConnList
    \/ ConnSwitch
    \/ ConnSelect
    \/ ConnSearch
    \/ ConnFetch
    \/ ConnStore
    \/ MailBoxSearch
    \/ MailBoxFetch
    \/ MailBoxStore
    \/ MessageFetch
    \/ MessageStore

Spec == Init /\ [][Next]_vars

----------------------------------------------------------------------------
(* Two threads on one Connection *)

(* A MailBox method is two steps, self._select() and then the call on the  *)
(* connection; nothing in connection.py keeps another thread from running  *)
(* between them. With serialized the callers themselves start an operation *)
(* only when no other is under way. What varies here is the interleaving,  *)
(* so the arguments are few.                                               *)

Methods == {"search", "fetch", "store"}
ThreadMessages == SeqsUpTo(ItemNums, 1)
ThreadPayloads == {SearchPayload(<<>>), SearchPayload(<<<<"2">>>>)}

InitThreads ==
    /\ mailbox = "INBOX"
    /\ readonly = FALSE
    /\ selected = NoSelection
    /\ op = "init"
    /\ caller = NoHandle
    /\ args = <<>>
    /\ before = [mailbox |-> "INBOX", readonly |-> FALSE]
    /\ calls = <<>>
    /\ outcome = "ok"
    /\ result = NoResult
    /\ serialized \in BOOLEAN
    /\ pc = [t \in Threads |-> "idle"]
    /\ running = [t \in Threads |-> NoOperation]

\* thread t calls a method of h, which runs up to the return of self._select()
Begin(t) ==
    /\ pc[t] = "idle"
    /\ serialized => \A u \in Threads : pc[u] = "idle"
    /\ \E h \in MailBoxes, fn \in Methods :
           IF fn = "store" /\ StoreRefused(h)
           THEN /\ Record("MailBox.store", h, <<>>,
                          Raise(Self, <<>>, "ReadOnlyException"))
                /\ UNCHANGED <<pc, running>>
           ELSE \E selStatus \in SelectAnswers(h) :
                    LET r == MailBox_select(Self, h, selStatus)
                    IN  /\ Record("MailBox._select", h, <<>>, r)
                        /\ IF r.outcome = "ok"
                           THEN /\ pc' = [pc EXCEPT ![t] = "selected"]
                                /\ running' = [running EXCEPT
                                                  ![t] = [h |-> h, fn |-> fn]]
                           ELSE UNCHANGED <<pc, running>>
    /\ UNCHANGED serialized

\* thread t goes on to the call on the connection and returns
Call(t) ==
    /\ pc[t] = "selected"
    /\ LET h == running[t].h
           fn == running[t].fn
       IN  \/ /\ fn = "search"
              /\ \E status \in Status, results \in ThreadPayloads :
                     Record("MailBox.search", h, <<"ALL">>,
                            SearchMessages(Self, h, "ALL", "None", status,
                                           IF status = "OK" THEN results
                                           ELSE ErrorText))
           \/ /\ fn = "fetch"
              /\ \E nums \in ThreadMessages, status \in Status :
                     Record("MailBox.fetch", h, <<nums, <<"FLAGS">>>>,
                            fetch(Self, ListArg(nums), <<"FLAGS">>, status))
           \/ /\ fn = "store"
              /\ \E messages \in ThreadMessages :
                     \E resp \in StoreAnswers(Len(messages)) :
                         Record("MailBox.store", h,
                                <<messages, "\\Seen", "+", FALSE>>,
                                store(Self, messages, "\\Seen", "+", FALSE, resp))
    /\ pc' = [pc EXCEPT ![t] = "idle"]
    /\ running' = [running EXCEPT ![t] = NoOperation]
    /\ UNCHANGED serialized

NextThreads ==
    \/ \E t \in Threads : Begin(t)
    \/ \E t \in Threads : Call(t)

SpecThreads == InitThreads /\ [][NextThreads]_vars

----------------------------------------------------------------------------
(* Properties *)

HandleOps ==
    {"MailBox.search", "MailBox.fetch", "MailBox.store", "Message.fetch",
     "Message.store"}

StoreOps == {"MailBox.store", "Message.store"}

SelectCalls == {i \in DOMAIN calls : calls[i].fn = "select"}

\* the calls that act on the selected mailbox
DependentCalls == {i \in DOMAIN calls : calls[i].fn \in {"search", "fetch", "store"}}

\* C1: once a transport select has answered OK, Connection.mailbox is the
\* mailbox name of the most recent transport select that answered OK.
C1_CurrentMailboxIsLastSelected ==
    selected # NoSelection => mailbox = selected.mailbox

\* a select for another mailbox failed after one had succeeded
C1_Witness ==
    /\ op = "Connection.switch"
    /\ outcome = "BadReturnStatus"
    /\ selected # NoSelection
    /\ args[1] # selected.mailbox

\* C2 (as claimed): after an operation whose transport select answered OK,
\* Connection.readonly is the read-only flag that select was asked for.
C2_ReadonlyIsRequested ==
    \A i \in SelectCalls :
        calls[i].status = "OK" => readonly = calls[i].args[2]

\* C3 (as claimed): every transport search, fetch or store issued through a
\* handle is executed while the transport's most recent successful select is
\* for the handle's own mailbox name.
C3_OperatesOnOwnMailbox ==
    op \in HandleOps =>
        \A i \in DependentCalls : calls[i].sel.mailbox = caller.mailbox

\* C4: a store on a handle constructed read-only raises the read-only error,
\* issues no transport call and leaves Connection.mailbox and
\* Connection.readonly as they were.
C4_ReadOnlyStoreRefused ==
    (op \in StoreOps /\ caller.readonly) =>
        /\ outcome = "ReadOnlyException"
        /\ calls = <<>>
        /\ result = NoResult
        /\ mailbox = before.mailbox
        /\ readonly = before.readonly

\* a read-only handle's store while another mailbox is selected read-write
C4_Witness ==
    /\ op \in StoreOps
    /\ caller.readonly
    /\ selected # NoSelection
    /\ ~selected.readonly
    /\ mailbox # caller.mailbox
    /\ outcome = "ReadOnlyException"

\* C5: a handle's search, fetch or (not read-only) store issues exactly one
\* transport select, first and for its own name and read-only flag, when
\* Connection.mailbox differs from the handle's name, and none when it is
\* the handle's name.
C5_OneSelectOnMismatch ==
    (op \in HandleOps /\ ~(op \in StoreOps /\ caller.readonly)) =>
        IF before.mailbox # caller.mailbox
        THEN /\ SelectCalls = {1}
             /\ calls[1].args = <<caller.mailbox, caller.readonly>>
        ELSE SelectCalls = {}

\* a handle's operation selected its own mailbox and then went on
C5_Witness ==
    /\ op \in HandleOps
    /\ before.mailbox # caller.mailbox
    /\ Len(calls) >= 2
    /\ calls[1].fn = "select"
    /\ calls[2].fn # "select"

\* the messages an item-number string addresses
Denotes(num_string) ==
    LET pieces == Split(num_string, " ")
    IN  {pieces[i] : i \in DOMAIN pieces}

\* C7 (as claimed): the item-number argument of every transport fetch and
\* store issued by a Message denotes exactly the Message's own item number.
C7_AddressesOwnItem ==
    /\ op = "Message.fetch" =>
           \A i \in DOMAIN calls :
               calls[i].fn = "fetch" => Denotes(calls[i].args[1]) = {caller.num}
    /\ op = "Message.store" =>
           \A i \in DOMAIN calls :
               calls[i].fn = "store" => calls[i].args[1] = caller.num

\* C8: a transport status other than "OK" ends the operation with
\* BadReturnStatus right after that call (no later transport call, no
\* result), and BadReturnStatus is raised for no other reason.
C8_NonOkStatusRaises ==
    /\ \A i \in DOMAIN calls : i < Len(calls) => calls[i].status = "OK"
    /\ (calls # <<>> /\ calls[Len(calls)].status # "OK") =>
           (outcome = "BadReturnStatus" /\ result = NoResult)
    /\ outcome = "BadReturnStatus" =>
           (calls # <<>> /\ calls[Len(calls)].status # "OK")

\* the empty status stopped a store before its second message
C8_Witness ==
    /\ op = "Connection.store"
    /\ Len(args[1]) = 2
    /\ Len(calls) = 1
    /\ calls[1].status = ""
    /\ outcome = "BadReturnStatus"

\* C9: Connection.store issues one transport store per message, in input
\* order and with one command token, up to and including the first that is
\* not OK; then it raises BadReturnStatus and returns nothing; when all are
\* OK it returns the flag payloads, one per message in input order.
C9_StorePerMessage ==
    op = "Connection.store" =>
        LET messages == args[1]
            n == Len(calls)
        IN  /\ n <= Len(messages)
            /\ \A i \in 1..n :
                   /\ calls[i].fn = "store"
                   /\ calls[i].args[1] = messages[i]
                   /\ calls[i].args[2] = StoreCommand(args[3], args[4])
                   /\ i < n => calls[i].status = "OK"
            /\ IF n > 0 /\ calls[n].status # "OK"
               THEN outcome = "BadReturnStatus" /\ result = NoResult
               ELSE /\ n = Len(messages)
                    /\ outcome = "ok"
                    /\ result = <<[i \in 1..n |-> calls[i].payload]>>

\* a store of two different messages that returned both payloads
C9_Witness ==
    /\ op = "Connection.store"
    /\ Len(args[1]) = 2
    /\ args[1][1] # args[1][2]
    /\ outcome = "ok"
    /\ Len(result[1]) = 2

\* C10: MailBox.search returns one Message per item number of the search
\* payload, in payload order, each with the mailbox name and read-only flag
\* of the handle it was called on; the empty payload gives no Message.
C10_SearchWrapsItems ==
    (op = "MailBox.search" /\ outcome = "ok") =>
        \A items \in SeqsUpTo(ItemNums, MaxItems) :
            calls[Len(calls)].payload = SearchPayload(items) =>
                result = <<[i \in 1..Len(items) |->
                              [kind |-> "Message", mailbox |-> caller.mailbox,
                               readonly |-> caller.readonly, num |-> items[i]]]>>

\* a search on a read-only handle that returned two different items
C10_Witness ==
    /\ op = "MailBox.search"
    /\ outcome = "ok"
    /\ caller.readonly
    /\ Len(result[1]) = 2
    /\ result[1][1].num # result[1][2].num

\* C6: when the callers run one operation at a time, no search, fetch or
\* store of a handle is executed while the transport has another handle's
\* mailbox selected (without that, such a state is reachable: C6_Witness).
C6_SerializedOperatesOnOwn ==
    (serialized /\ op \in HandleOps) =>
        \A i \in DependentCalls :
            calls[i].sel.mailbox \in {caller.mailbox, NoSelection.mailbox}

\* unserialized, a handle's call was executed on the other handle's mailbox
C6_Witness ==
    /\ ~serialized
    /\ op \in HandleOps
    /\ \E i \in DependentCalls :
           /\ calls[i].sel # NoSelection
           /\ calls[i].sel.mailbox # caller.mailbox

\* C11: a Message.store that returns has issued exactly one transport store
\* and returns the flag payload of that call itself, not a sequence of one.
C11_StoreUnwraps ==
    (op = "Message.store" /\ outcome = "ok") =>
        /\ Cardinality({i \in DOMAIN calls : calls[i].fn = "store"}) = 1
        /\ calls[Len(calls)].fn = "store"
        /\ calls[Len(calls)].args[1] = caller.num
        /\ result = <<calls[Len(calls)].payload>>

\* a Message selected its mailbox, stored and returned
C11_Witness ==
    /\ op = "Message.store"
    /\ outcome = "ok"
    /\ ~caller.readonly
    /\ Len(calls) = 2
    /\ caller.num = <<"1", "2">>

\* what each well-formed listing line says: the flags between the
\* parentheses, the delimiter between the quotes, the mailbox it names
Listed ==
    {[line |-> ListLine(<<>>, <<"/">>, <<"a">>),
      flags |-> <<>>, delimiter |-> <<"/">>, name |-> <<"a">>],
     [line |-> ListLine(<<"x">>, <<".">>, <<"a">>),
      flags |-> <<"x">>, delimiter |-> <<".">>, name |-> <<"a">>],
     [line |-> ListLine(<<"x", " ", "y">>, <<"/">>, <<Quote, "a", " ", "b", Quote>>),
      flags |-> <<"x", " ", "y">>, delimiter |-> <<"/">>, name |-> <<"a", " ", "b">>]}

WellFormed == {e.line : e \in Listed}

Meaning(line) == CHOOSE e \in Listed : e.line = line

\* C12: a list that returns gives a mapping with exactly one entry per
\* mailbox named by the listing lines, each entry holding the flags and the
\* delimiter of the last line that names it.
C12_ListLastLineWins ==
    (op = "Connection.list" /\ outcome = "ok") =>
        LET boxlist == calls[1].payload
            boxes == result[1]
            lastOf(n) == Max({i \in DOMAIN boxlist : Meaning(boxlist[i]).name = n})
        IN  /\ \A i \in DOMAIN boxlist : boxlist[i] \in WellFormed
            /\ DOMAIN boxes = {Meaning(boxlist[i]).name : i \in DOMAIN boxlist}
            /\ \A n \in DOMAIN boxes :
                  boxes[n] = [flags |-> Meaning(boxlist[lastOf(n)]).flags,
                              delimiter |-> Meaning(boxlist[lastOf(n)]).delimiter]

\* two lines name the same mailbox with different flags and delimiters
C12_Witness ==
    /\ op = "Connection.list"
    /\ outcome = "ok"
    /\ Len(calls[1].payload) = 2
    /\ calls[1].payload[1] # calls[1].payload[2]
    /\ Meaning(calls[1].payload[1]).name = Meaning(calls[1].payload[2]).name
    /\ Meaning(calls[1].payload[2]).flags = <<>>
    /\ result[1][<<"a">>] = [flags |-> <<>>, delimiter |-> <<"/">>]

\* C13: a list whose transport answer is OK and holds a line that is not of
\* the three-group shape fails with the UnparsableListing error and returns
\* no mapping, partial or whole.
C13_UnparsableListingRaised ==
    (/\ op = "Connection.list"
     /\ calls[1].status = "OK"
     /\ \E i \in DOMAIN calls[1].payload : calls[1].payload[i] \notin WellFormed)
        => (outcome = "UnparsableListing" /\ result = NoResult)

\* C14: looking up a name that Connection does not define gives the
\* transport's attribute of the name without its prefix exactly when the name
\* is "_" followed by the name of an attribute the transport has; every other
\* such name fails with AttributeError; no transport operation is called and
\* the connection is left as it was.
C14_PassThroughByPrefix ==
    (op = "Connection.__getattr__") =>
        LET name == args[1]
        IN  /\ calls = <<>>
            /\ mailbox = before.mailbox
            /\ IF \E a \in ParentAttrs : name = <<"_">> \o a
               THEN outcome = "ok" /\ result = <<[parent |-> Tail(name)]>>
               ELSE outcome = "AttributeError" /\ result = NoResult

\* a prefixed name was forwarded
C14_Witness ==
    /\ op = "Connection.__getattr__"
    /\ args[1] = <<"_">> \o Noop
    /\ outcome = "ok"
    /\ result = <<[parent |-> Noop]>>

\* C15: every Connection.switch and Connection.select issues exactly one
\* transport select, with the requested name and read-only flag, also when
\* the name is the cached one; an operation on a handle issues none when the
\* handle's name is the cached one.
C15_SwitchAlwaysSelects ==
    /\ op \in {"Connection.switch", "Connection.select"} =>
          /\ Len(calls) = 1
          /\ calls[1].fn = "select"
          /\ calls[1].args = args
    /\ (op \in HandleOps /\ caller.mailbox = before.mailbox) => SelectCalls = {}

\* a switch to the mailbox that is cached and selected already
C15_Witness ==
    /\ op = "Connection.switch"
    /\ args[1] = before.mailbox
    /\ calls[1].sel # NoSelection
    /\ calls[1].sel.mailbox = args[1]
    /\ calls[1].sel.readonly = args[2]
    /\ outcome = "ok"

\* C16: when a transport select issued by switch, select or an operation on
\* a handle is not OK, the cached name and read-only flag are what they were,
\* the operation raises and returns nothing (no MailBox from select), and no
\* search, fetch or store reaches the transport.
C16_FailedSelectChangesNothing ==
    (\E i \in SelectCalls : calls[i].status # "OK") =>
        /\ mailbox = before.mailbox
        /\ readonly = before.readonly
        /\ outcome = "BadReturnStatus"
        /\ result = NoResult
        /\ DependentCalls = {}
        /\ Len(calls) = 1

\* a select of another mailbox was refused after one had been selected
C16_Witness ==
    /\ op = "Connection.select"
    /\ calls[1].status = "NO"
    /\ calls[1].sel # NoSelection
    /\ args[1] # mailbox
    /\ result = NoResult

\* C17: whenever a search, fetch or store of a handle reaches the transport
\* with a mailbox selected, the read-only mode of that selection is the
\* handle's own read-only flag.
C17_SelectedModeIsHandleMode ==
    op \in HandleOps =>
        \A i \in DependentCalls :
            calls[i].sel # NoSelection => calls[i].sel.readonly = caller.readonly

\* C18: login, list, search, fetch and store of Connection, attribute lookup
\* and the construction of handles leave the cached name and read-only flag
\* as they were and issue no transport select; the cached name differs after
\* an operation only if that operation had a transport select answered OK.
C18_OnlySwitchChangesMailbox ==
    /\ op \in {"Connection.login", "Connection.list", "Connection.search",
               "Connection.fetch", "Connection.store", "MailBox", "Message"} =>
          /\ mailbox = before.mailbox
          /\ readonly = before.readonly
          /\ SelectCalls = {}
    /\ (op # "init" /\ mailbox # before.mailbox) =>
          \E i \in SelectCalls : /\ calls[i].status = "OK"
                                 /\ calls[i].args[1] = mailbox

\* a login failed while a mailbox other than the initial one was current
C18_Witness ==
    /\ op = "Connection.login"
    /\ outcome = "BadReturnStatus"
    /\ mailbox = "Sent"
    /\ before.mailbox = "Sent"

====
